---- MODULE Spec2Model ----
(***************************************************************************)
(* Staff scheduling: the loader (src/src/io_utils.py), the flexible        *)
(* pattern generator (src/src/flexible_candidates.py), the model builder   *)
(* (src/src/model.py) and the driver (src/src/solve.py), as a state        *)
(* machine over the contents of one dataset directory.                     *)
(*                                                                         *)
(* Money is kept in integers: INTERVAL_HOURS = 0.5 is the rational         *)
(* HoursNum / HoursDen, and every cost is carried multiplied by HoursDen.  *)
(***************************************************************************)
EXTENDS Integers, Sequences, FiniteSets, TLC

VARIABLES csv, cfg, pc, data, flex, m, sol, out

vars == <<csv, cfg, pc, data, flex, m, sol, out>>

(***************************************************************************)
(* Bounds of the datasets that are explored.                               *)
(***************************************************************************)
MaxDay == 2
MaxT == 2
MaxLen == 2
MaxDemand == 1
MaxSlack == 1

\* the job names of the datasets, in the order sorted() gives them
JobOrder == <<"cashier", "waiter">>

(***************************************************************************)
(* Helpers for Python's lists, dicts and sorted().                         *)
(***************************************************************************)
Range(f) == {f[n] : n \in DOMAIN f}

RECURSIVE ConcatAll(_)
ConcatAll(ss) == IF ss = <<>> THEN <<>> ELSE Head(ss) \o ConcatAll(Tail(ss))

RECURSIVE SortedInts(_)
SortedInts(S) ==
  IF S = {} THEN <<>>
  ELSE LET lo == CHOOSE x \in S : \A y \in S : x <= y
       IN <<lo>> \o SortedInts(S \ {lo})

SortedJobs(S) == SelectSeq(JobOrder, LAMBDA k : k \in S)

PyRange(a, b) == a .. (b - 1)

(***************************************************************************)
(* io_utils.py                                                             *)
(***************************************************************************)
HoursNum == 1
HoursDen == 2

PenPref == 10
PenMinAsPenPref == PenPref
PenMin == 10000000

load_unavailability(rows, employees, days) ==
  UNION { {<<r.employee_id, r.day, t>> : t \in PyRange(r.start_t, r.end_t)} :
          r \in {r2 \in rows : r2.employee_id \in Range(employees)
                               /\ r2.day \in Range(days)} }

by_shift_t(covers, j) == {c[2] : c \in {c2 \in covers : c2[1] = j}}

AvailFirstSlotOnly(i, j, d, covers, blocked) ==
  LET ts == by_shift_t(covers, j)
  IN \/ ts = {}
     \/ <<i, d, CHOOSE t \in ts : \A t2 \in ts : t <= t2>> \notin blocked

\* lines 164-176: the value of "ok" for (i, j, d), or the trivial branch
AvailOnAllSlots(i, j, d, covers, blocked) ==
  LET ts == by_shift_t(covers, j)
  IN \/ ts = {}
     \/ \A t \in ts : <<i, d, t>> \notin blocked

derive_shift_availability_from_grid(shifts, covers, employees, days, blocked) ==
  {a \in Range(employees) \X Range(shifts) \X Range(days) :
     AvailOnAllSlots(a[1], a[2], a[3], covers, blocked)}

\* data["skills"].get((i, k), 0)
HasSkill(skills, i, k) == <<i, k>> \in skills

\* lines 118-128
BuildX(employees, shifts, days, jobs_of, skills, availability) ==
  ConcatAll([a \in 1..Len(employees) |->
    ConcatAll([b \in 1..Len(shifts) |->
      IF ~HasSkill(skills, employees[a], jobs_of[shifts[b]]) THEN <<>>
      ELSE LET cand == [c \in 1..Len(days) |-> <<employees[a], shifts[b], days[c]>>]
           IN SelectSeq(cand, LAMBDA x : x \in availability)])])

\* line 53: for t in range(s, s+L)
ShiftCover(s, L) == PyRange(s, s + L)

\* wage[i] = ..., emp_type[i] = ...: the last row of employee i wins
EmployeeRowOf(rows, i) ==
  rows[CHOOSE n \in 1..Len(rows) :
         /\ rows[n].employee_id = i
         /\ \A n2 \in (n + 1)..Len(rows) : rows[n2].employee_id # i]

\* jobs_of[j] = ..., start_j[j] = ..., Lj[j] = ..., unpaid[j] = ...: the last row
\* of shift j wins
ShiftRowOf(rows, j) ==
  rows[CHOOSE n \in 1..Len(rows) :
         /\ rows[n].shift_id = j
         /\ \A n2 \in (n + 1)..Len(rows) : rows[n2].shift_id # j]

\* lines 103-104: max() of an empty sequence raises ValueError
LoadFails(files) == files.employees = <<>> \/ files.shifts = <<>>

load_data(files) ==
  LET employees == [n \in 1..Len(files.employees) |-> files.employees[n].employee_id]
      ids       == Range(employees)
      wage      == [i \in ids |-> EmployeeRowOf(files.employees, i).hourly_cost]
      emp_type  == [i \in ids |-> EmployeeRowOf(files.employees, i).type]
      skills    == {<<r.employee_id, r.job>> : r \in files.skills}
      jobs      == SortedJobs({r.job : r \in files.skills})
      shifts    == [n \in 1..Len(files.shifts) |-> files.shifts[n].shift_id]
      sids      == Range(shifts)
      row(j)    == ShiftRowOf(files.shifts, j)
      jobs_of   == [j \in sids |-> row(j).job]
      start_j   == [j \in sids |-> row(j).start_t]
      Lj        == [j \in sids |-> row(j).length]
      unpaid    == [j \in sids |-> row(j).unpaid_breaks_Bj]
      days      == SortedInts({r.day : r \in Range(files.shifts)})
      covers    == UNION { {<<r.shift_id, t>> : t \in ShiftCover(r.start_t, r.length)} :
                           r \in Range(files.shifts) }
      intervals == SortedInts({c[2] : c \in covers} \cup {r.t : r \in files.demand})
      grid      == Range(jobs) \X Range(days) \X Range(intervals)
      hit(g)    == {r \in files.demand : r.job = g[1] /\ r.day = g[2] /\ r.t = g[3]}
      pref_kdt  == [g \in grid |-> IF hit(g) = {} THEN 0
                                   ELSE (CHOOSE r \in hit(g) : TRUE).preferred]
      min_kdt   == [g \in grid |-> IF hit(g) = {} THEN 0
                                   ELSE (CHOOSE r \in hit(g) : TRUE).min]
      blocked   == load_unavailability(files.unavailability, employees, days)
      availability ==
        derive_shift_availability_from_grid(shifts, covers, employees, days, blocked)
      FT        == SelectSeq(employees, LAMBDA i : emp_type[i] = "FT")
      PT20      == SelectSeq(employees, LAMBDA i : emp_type[i] = "PT20")
      PT25      == SelectSeq(employees, LAMBDA i : emp_type[i] = "PT25")
  IN [employees |-> employees, wage |-> wage, emp_type |-> emp_type,
      skills |-> skills, jobs |-> jobs, shifts |-> shifts, jobs_of |-> jobs_of,
      days |-> days, start_j |-> start_j, Lj |-> Lj, unpaid |-> unpaid,
      covers |-> covers, intervals |-> intervals,
      pref_kdt |-> pref_kdt, min_kdt |-> min_kdt,
      blocked |-> blocked, availability |-> availability,
      FT |-> FT, PT20 |-> PT20, PT25 |-> PT25, PT |-> PT20 \o PT25,
      pen_min |-> PenMin, pen_pref |-> PenPref,
      X |-> BuildX(employees, shifts, days, jobs_of, skills, availability)]

NoData == [employees |-> <<>>]

(***************************************************************************)
(* flexible_candidates.py                                                  *)
(***************************************************************************)
None == <<>>

\* f"P{pid}"
PatternId(pid) == <<"P", pid>>

\* lines 16-20
StartTimes(intervals, start_window) ==
  IF start_window = None THEN intervals
  ELSE SelectSeq(intervals,
                 LAMBDA t : start_window[1] <= t /\ t <= start_window[2])

\* line 46: not any((t not in intervals) for t in range(s, end_t))
OnValidIndices(intervals, s, end_t) ==
  \A t \in PyRange(s, end_t) : t \in Range(intervals)

FeasPastEnd(blocked, i, d, s, end_t) ==
  \A t \in PyRange(s, end_t + 1) : <<i, d, t>> \notin blocked

FeasUpToLast(blocked, i, d, s, end_t) ==
  \A t \in PyRange(s, end_t - 1) : <<i, d, t>> \notin blocked

\* lines 50-54: the value of "feas"
Feas(blocked, i, d, s, end_t) ==
  \A t \in PyRange(s, end_t) : <<i, d, t>> \notin blocked

PatternCoverInclusive(s, end_t) == s .. end_t

\* lines 65-66: for t in range(s, end_t)
PatternCover(s, end_t) == PyRange(s, end_t)

\* line 36: i in PT
IsPartTime(PT, i) == i \in Range(PT)

\* lines 35-56: the (i, k, d, s, L) that reach line 58, in loop order
PatternTuples(dd, allowed_lengths, start_window) ==
  LET starts == StartTimes(dd.intervals, start_window)
  IN ConcatAll([a \in 1..Len(dd.employees) |->
       IF ~IsPartTime(dd.PT, dd.employees[a]) THEN <<>>
       ELSE ConcatAll([b \in 1..Len(dd.jobs) |->
         IF ~HasSkill(dd.skills, dd.employees[a], dd.jobs[b]) THEN <<>>
         ELSE ConcatAll([c \in 1..Len(dd.days) |->
           ConcatAll([e \in 1..Len(starts) |->
             SelectSeq(
               [f \in 1..Len(allowed_lengths) |->
                  <<dd.employees[a], dd.jobs[b], dd.days[c], starts[e],
                    allowed_lengths[f]>>],
               LAMBDA q :
                 /\ OnValidIndices(dd.intervals, q[4], q[4] + q[5])
                 /\ Feas(dd.blocked, q[1], q[3], q[4], q[4] + q[5]))])])])])

build_flexible_candidates(dd, allowed_lengths, start_window) ==
  LET tuples == PatternTuples(dd, allowed_lengths, start_window)
      Y      == [n \in 1..Len(tuples) |-> PatternId(n - 1)]
      at(p)  == tuples[CHOOSE n \in 1..Len(tuples) : Y[n] = p]
      ps     == Range(Y)
  IN [Y |-> Y,
      P_i |-> [p \in ps |-> at(p)[1]],
      P_k |-> [p \in ps |-> at(p)[2]],
      P_d |-> [p \in ps |-> at(p)[3]],
      P_s |-> [p \in ps |-> at(p)[4]],
      P_L |-> [p \in ps |-> at(p)[5]],
      covP |-> UNION { {<<Y[n], t>> :
                          t \in PatternCover(tuples[n][4], tuples[n][4] + tuples[n][5])} :
                       n \in 1..Len(tuples) },
      paidP |-> [p \in ps |-> at(p)[5]],
      costP |-> [p \in ps |-> dd.wage[at(p)[1]] * HoursNum * at(p)[5]]]

DataAfterCallLosesBlocked(dd, allowed_lengths, start_window) ==
  [dd EXCEPT !.blocked = {}]

\* lines 4-12 and 34-68 only read data: the dict the caller passed is left as it was
DataAfterCall(dd, allowed_lengths, start_window) == dd

NoFlex == [Y |-> <<>>]
NoCfg == [allowed_lengths |-> <<>>]

(***************************************************************************)
(* model.py.  An assignment a gives a value to every variable of the       *)
(* model: a.x on m.X, a.y on m.Y, a.slack_min and a.slack_pref on K x D x T.*)
(***************************************************************************)
RECURSIVE SumFn(_, _)
SumFn(f, S) ==
  IF S = {} THEN 0
  ELSE LET e == CHOOSE e2 \in S : TRUE IN f[e] + SumFn(f, S \ {e})

\* lines 85-86
id_pairs(dd, fl) ==
  {<<x[1], x[3]>> : x \in Range(dd.X)} \cup
  {<<fl.P_i[p], fl.P_d[p]>> : p \in Range(fl.Y)}

\* lines 90-92
patterns_by_id(fl) ==
  [q \in {<<fl.P_i[p], fl.P_d[p]>> : p \in Range(fl.Y)} |->
     SelectSeq(fl.Y, LAMBDA p : <<fl.P_i[p], fl.P_d[p]>> = q)]

\* Pyomo rejects a Param value outside "within" and an initialize key outside
\* the index set while build_model constructs the components (lines 18-46)
BuildFails(dd, fl) ==
  \/ \E i \in Range(dd.employees) : dd.wage[i] < 0
  \/ \E j \in Range(dd.shifts) : dd.Lj[j] < 0 \/ dd.unpaid[j] < 0
  \/ \E j \in Range(dd.shifts) : dd.jobs_of[j] \notin Range(dd.jobs)
  \/ \E sk \in dd.skills : sk[1] \notin Range(dd.employees)
  \/ \E p \in Range(fl.Y) : fl.P_s[p] < 0 \/ fl.P_L[p] < 0

build_model(dd, fl) ==
  [I |-> Range(dd.employees), J |-> Range(dd.shifts), D |-> Range(dd.days),
   T |-> Range(dd.intervals), K |-> Range(dd.jobs),
   X |-> Range(dd.X), Y |-> Range(fl.Y),
   cost |-> dd.wage, Lj |-> dd.Lj, Bj |-> dd.unpaid, covers |-> dd.covers,
   job_of |-> dd.jobs_of, avail |-> dd.availability, skill |-> dd.skills,
   prefReq |-> dd.pref_kdt, minReq |-> dd.min_kdt,
   pen_pref |-> dd.pen_pref, pen_min |-> dd.pen_min,
   P_i |-> fl.P_i, P_k |-> fl.P_k, P_d |-> fl.P_d, P_s |-> fl.P_s, P_L |-> fl.P_L,
   covP |-> fl.covP, paidP |-> fl.paidP, costP |-> fl.costP,
   ID |-> id_pairs(dd, fl), patterns_by_id |-> patterns_by_id(fl)]

\* Param(..., default=0, within=Binary) read at an index
ParamCovers(mm, j, t) == IF <<j, t>> \in mm.covers THEN 1 ELSE 0
ParamCovP(mm, p, t) == IF <<p, t>> \in mm.covP THEN 1 ELSE 0
ParamSkill(mm, i, k) == IF <<i, k>> \in mm.skill THEN 1 ELSE 0

Grid(mm) == mm.K \X mm.D \X mm.T

obj_rule_min_rewarded(mm, a) ==
  HoursNum * SumFn([x \in mm.X |->
               mm.cost[x[1]] * (mm.Lj[x[2]] - mm.Bj[x[2]]) * a.x[x]], mm.X)
  + SumFn([p \in mm.Y |-> mm.costP[p] * a.y[p]], mm.Y)
  + HoursDen * mm.pen_pref * SumFn(a.slack_pref, Grid(mm))
  - HoursDen * mm.pen_min * SumFn(a.slack_min, Grid(mm))

obj_rule_wage_only(mm, a) ==
  HoursNum * SumFn([x \in mm.X |->
               mm.cost[x[1]] * (mm.Lj[x[2]] - mm.Bj[x[2]]) * a.x[x]], mm.X)
  + SumFn([p \in mm.Y |-> mm.costP[p] * a.y[p]], mm.Y)

\* lines 57-62, multiplied by HoursDen
obj_rule(mm, a) ==
  LET wage_fixed == HoursNum * SumFn([x \in mm.X |->
                      mm.cost[x[1]] * (mm.Lj[x[2]] - mm.Bj[x[2]]) * a.x[x]], mm.X)
      wage_flex  == SumFn([p \in mm.Y |-> mm.costP[p] * a.y[p]], mm.Y)
      pref_pen   == mm.pen_pref * SumFn(a.slack_pref, Grid(mm))
      min_pen    == mm.pen_min * SumFn(a.slack_min, Grid(mm))
  IN wage_fixed + wage_flex + HoursDen * pref_pen + HoursDen * min_pen

\* lines 75-79
skill_rule(mm, a, i, j, d) ==
  a.x[<<i, j, d>>] <= ParamSkill(mm, i, mm.job_of[j])

one_per_day_fixed_only(mm, a, i, d) ==
  LET mine == {x \in mm.X : x[1] = i /\ x[3] = d}
  IN SumFn([x \in mine |-> a.x[x]], mine) <= 1

one_per_day_per_shift(mm, a, i, d) ==
  \A j \in mm.J :
    LET mine  == {x \in mm.X : x[1] = i /\ x[3] = d /\ x[2] = j}
        plist == IF <<i, d>> \in DOMAIN mm.patterns_by_id
                 THEN Range(mm.patterns_by_id[<<i, d>>]) ELSE {}
    IN SumFn([x \in mine |-> a.x[x]], mine) + SumFn([p \in plist |-> a.y[p]], plist) <= 1

\* lines 94-98
one_per_day(mm, a, i, d) ==
  LET mine      == {x \in mm.X : x[1] = i /\ x[3] = d}
      fixed_sum == SumFn([x \in mine |-> a.x[x]], mine)
      plist     == IF <<i, d>> \in DOMAIN mm.patterns_by_id
                   THEN Range(mm.patterns_by_id[<<i, d>>]) ELSE {}
      flex_sum  == SumFn([p \in plist |-> a.y[p]], plist)
  IN fixed_sum + flex_sum <= 1

assigned_kdt_any_day(mm, a, k, d, t) ==
  LET xs == {x \in mm.X : mm.job_of[x[2]] = k}
      ps == {p \in mm.Y : mm.P_k[p] = k /\ mm.P_d[p] = d}
  IN SumFn([x \in xs |-> ParamCovers(mm, x[2], t) * a.x[x]], xs)
     + SumFn([p \in ps |-> ParamCovP(mm, p, t) * a.y[p]], ps)

\* lines 102-105
assigned_kdt(mm, a, k, d, t) ==
  LET xs == {x \in mm.X : x[3] = d /\ mm.job_of[x[2]] = k}
      ps == {p \in mm.Y : mm.P_k[p] = k /\ mm.P_d[p] = d}
  IN SumFn([x \in xs |-> ParamCovers(mm, x[2], t) * a.x[x]], xs)
     + SumFn([p \in ps |-> ParamCovP(mm, p, t) * a.y[p]], ps)

\* lines 107-108
preferred_staffing(mm, a, k, d, t) ==
  assigned_kdt(mm, a, k, d, t) + a.slack_pref[<<k, d, t>>] >= mm.prefReq[<<k, d, t>>]

minimum_staffing_no_slack(mm, a, k, d, t) ==
  assigned_kdt(mm, a, k, d, t) >= mm.minReq[<<k, d, t>>]

\* lines 111-112
minimum_staffing(mm, a, k, d, t) ==
  assigned_kdt(mm, a, k, d, t) + a.slack_min[<<k, d, t>>] >= mm.minReq[<<k, d, t>>]

\* lines 50-53: Binary and NonNegativeReals
InDomains(mm, a) ==
  /\ \A x \in mm.X : a.x[x] \in {0, 1}
  /\ \A p \in mm.Y : a.y[p] \in {0, 1}
  /\ \A g \in Grid(mm) : a.slack_pref[g] >= 0 /\ a.slack_min[g] >= 0

\* line 80: m.SkillOK = Constraint(m.X, rule=skill_rule)
SkillOK(mm, a) == \A x \in mm.X : skill_rule(mm, a, x[1], x[2], x[3])

\* line 99: m.OneShiftPerDay = Constraint(m.ID, rule=one_per_day)
OneShiftPerDay(mm, a) == \A q \in mm.ID : one_per_day(mm, a, q[1], q[2])

\* line 109: m.Preferred = Constraint(m.K, m.D, m.T, rule=preferred_staffing)
Preferred(mm, a) == \A g \in Grid(mm) : preferred_staffing(mm, a, g[1], g[2], g[3])

\* line 113: m.Minimum = Constraint(m.K, m.D, m.T, rule=minimum_staffing)
Minimum(mm, a) == \A g \in Grid(mm) : minimum_staffing(mm, a, g[1], g[2], g[3])

\* a satisfies every variable domain and every constraint of the model
Satisfies(mm, a) ==
  /\ InDomains(mm, a)
  /\ SkillOK(mm, a)
  /\ OneShiftPerDay(mm, a)
  /\ Preferred(mm, a)
  /\ Minimum(mm, a)

\* the x and y parts of the assignments that pass the constraints reading only
\* x and y (SkillOK, OneShiftPerDay)
BinaryChoices(mm) ==
  LET xs == {xv \in [mm.X -> {0, 1}] : SkillOK(mm, [x |-> xv])}
  IN UNION { {[x |-> xv, y |-> yv] :
                yv \in {yv2 \in [mm.Y -> {0, 1}] :
                          OneShiftPerDay(mm, [x |-> xv, y |-> yv2])}} : xv \in xs }

\* lines 52-53 with 107-113: the least non-negative slack that meets
\* assigned + slack >= req at every cell, for given x and y
LeastSlack(mm, xy, req) ==
  [g \in Grid(mm) |->
     LET n == assigned_kdt(mm, xy, g[1], g[2], g[3])
     IN IF req[g] > n THEN req[g] - n ELSE 0]

\* the slack vectors tried for given x and y: the least one, and the ones one
\* unit below and one unit above it at every cell
SlackAround(mm, xy, req) ==
  LET least == LeastSlack(mm, xy, req)
  IN {[g \in Grid(mm) |-> least[g] + o] : o \in {-1, 0, 1}}

\* The assignments among which the minimum of the objective is looked for: any
\* binary x and y, with slacks around the least ones.  The objective is linear
\* in each slack, so for given x and y its minimum over the feasible slacks lies
\* at the least slack whenever the penalty weights are positive.
SlackAssignments(mm) ==
  UNION { {[x |-> xy.x, y |-> xy.y, slack_min |-> smin, slack_pref |-> spref] :
             smin \in SlackAround(mm, xy, mm.minReq),
             spref \in SlackAround(mm, xy, mm.prefReq)} : xy \in BinaryChoices(mm) }

Feasible(mm) == {a \in SlackAssignments(mm) : Satisfies(mm, a)}

\* line 63: m.obj = Objective(rule=obj_rule, sense=minimize), multiplied by HoursDen
OptValue(mm) ==
  LET vals == {obj_rule(mm, a) : a \in Feasible(mm)}
  IN CHOOSE v \in vals : \A w \in vals : v <= w

Optimal(mm) ==
  LET feas == Feasible(mm)
      vals == {obj_rule(mm, a) : a \in feas}
      best == CHOOSE v \in vals : \A w \in vals : v <= w
  IN {a \in feas : obj_rule(mm, a) = best}

NoModel == [X |-> {}, I |-> {}]
NoSol == [x |-> <<>>]
NoOut == [ft |-> {}]

(***************************************************************************)
(* solve.py helpers                                                        *)
(***************************************************************************)
\* lines 137-151
compute_assigned(mm, a, k, d, t) ==
  LET xs == {x \in mm.X : x[3] = d /\ mm.job_of[x[2]] = k}
      ps == {p \in mm.Y : mm.P_d[p] = d /\ mm.P_k[p] = k}
  IN SumFn([x \in xs |-> ParamCovers(mm, x[2], t) * a.x[x]], xs)
     + (IF mm.Y # {} THEN SumFn([p \in ps |-> ParamCovP(mm, p, t) * a.y[p]], ps) ELSE 0)

\* lines 203-216 of main, sanity_check aside: the model of a dataset
ModelOf(files, allowed_lengths, start_window) ==
  LET dd == load_data(files)
  IN build_model(dd, build_flexible_candidates(dd, allowed_lengths, start_window))

\* lines 34-40: the raise statements of sanity_check
SanityFails(dd) ==
  \/ dd.employees = <<>>
  \/ dd.jobs = <<>>
  \/ dd.days = <<>>
  \/ dd.intervals = <<>>
  \/ dd.shifts = <<>>
  \/ dd.covers = {}

(***************************************************************************)
(* The dataset directories and the generator configurations explored.      *)
(***************************************************************************)
EmpRow(i, w, ty) == [employee_id |-> i, hourly_cost |-> w, type |-> ty]

EmployeeFiles ==
  {<<>>} \cup
  {<<r1>> \o r2 :
     r1 \in {EmpRow("e1", 20, "FT"), EmpRow("e1", 8, "PT20")},
     r2 \in {<<>>, <<EmpRow("e2", 20, "PT25")>>}}

SkillFiles ==
  {{[employee_id |-> q[1], job |-> q[2]] : q \in S} :
     S \in SUBSET {<<"e1", "cashier">>, <<"e1", "waiter">>, <<"e2", "cashier">>}}

ShiftRow(j, d, k, s, L, b) ==
  [shift_id |-> j, day |-> d, job |-> k, start_t |-> s, length |-> L,
   unpaid_breaks_Bj |-> b]

ShiftFiles ==
  {<<>>} \cup
  {<<ShiftRow("s1", 1, "cashier", 0, L1, 0)>> \o r2 :
     L1 \in 1..MaxLen,
     r2 \in {<<>>} \cup {<<ShiftRow("s2", d, k, 1, L2, L2)>> :
                            d \in 1..MaxDay, k \in Range(JobOrder), L2 \in 0..1}}

DemandRow(k, d, t, p, mn) == [job |-> k, day |-> d, t |-> t, preferred |-> p, min |-> mn]

DemandFilesGen == {{}, {DemandRow("cashier", 1, MaxT, MaxDemand, MaxDemand)}}

UnavRow(i, d, s, e) == [employee_id |-> i, day |-> d, start_t |-> s, end_t |-> e]

UnavailabilityFilesGen ==
  {{}} \cup
  {{UnavRow("e1", d, se[1], se[2])} :
     d \in 1..MaxDay,
     se \in {<<t, t + 1>> : t \in 0..MaxT} \cup {<<0, MaxT + 1>>}}

CsvGen ==
  {[employees |-> e, skills |-> sk, shifts |-> sh, demand |-> de, unavailability |-> un] :
     e \in EmployeeFiles, sk \in SkillFiles, sh \in ShiftFiles,
     de \in DemandFilesGen, un \in UnavailabilityFilesGen}

EmployeeFilesMain ==
  {<<EmpRow("e1", 8, "PT20")>> \o r2 : r2 \in {<<>>, <<EmpRow("e2", 20, "FT")>>}}

SkillFilesMain ==
  {{[employee_id |-> q[1], job |-> q[2]] : q \in S \cup {<<"e1", "cashier">>}} :
     S \in SUBSET {<<"e2", "cashier">>, <<"e2", "waiter">>}}

ShiftFilesMain ==
  {<<>>} \cup
  {<<ShiftRow("s1", 1, "cashier", 0, L1, 0)>> \o r2 :
     L1 \in 1..MaxLen,
     r2 \in {<<>>} \cup {<<ShiftRow("s2", d, k, 1, 1, 0)>> :
                            d \in 1..MaxDay, k \in Range(JobOrder)}}

DemandFilesMain ==
  {{}, {DemandRow("cashier", 1, 1, MaxDemand, 0)}} \cup
  {{DemandRow(k, d, 1, MaxDemand, MaxDemand)} : k \in Range(JobOrder), d \in 1..MaxDay}

UnavailabilityFilesMain == {{}, {UnavRow("e1", 1, 0, 1)}}

CsvMain ==
  {[employees |-> e, skills |-> sk, shifts |-> sh, demand |-> de, unavailability |-> un] :
     e \in EmployeeFilesMain, sk \in SkillFilesMain, sh \in ShiftFilesMain,
     de \in DemandFilesMain, un \in UnavailabilityFilesMain}

\* the datasets on which the minimum of the objective is examined
EmployeeFilesOpt ==
  {<<EmpRow("e1", 8, "PT20")>>, <<EmpRow("e1", 20, "FT")>>,
   <<EmpRow("e1", 8, "PT20"), EmpRow("e2", 20, "FT")>>}

SkillFilesOpt ==
  {{[employee_id |-> q[1], job |-> q[2]] : q \in S \cup {<<"e1", "cashier">>}} :
     S \in {{}, {<<"e2", "cashier">>}, {<<"e2", "waiter">>}}}

DemandFilesOpt ==
  {{}} \cup
  {{DemandRow("cashier", d, 1, MaxDemand, MaxDemand)} : d \in 1..MaxDay} \cup
  {{DemandRow("cashier", 1, t, MaxDemand, 1) : t \in 0..(L - 1)} : L \in 1..MaxLen}

CsvOpt ==
  {[employees |-> e, skills |-> sk, shifts |-> sh, demand |-> de, unavailability |-> un] :
     e \in EmployeeFilesOpt, sk \in SkillFilesOpt, sh \in ShiftFilesMain,
     de \in DemandFilesOpt, un \in UnavailabilityFilesMain}

AllowedLengthChoices ==
  {<<L>> : L \in 1..MaxLen} \cup {[n \in 1..MaxLen |-> n]}

StartWindowChoices == {None, <<0, 0>>, <<1, MaxT>>}

(***************************************************************************)
(* solve.py, main: one action per call.                                    *)
(***************************************************************************)
\* line 203: data = load_data(str(data_dir))
LoadData ==
  /\ pc = "load"
  /\ IF LoadFails(csv)
     THEN pc' = "error" /\ data' = NoData
     ELSE pc' = "flex" /\ data' = load_data(csv)
  /\ UNCHANGED <<csv, cfg, flex, m, sol, out>>

\* a direct call build_flexible_candidates(data, allowed_lengths, start_window)
CallBuildFlexibleCandidates ==
  /\ pc = "flex"
  /\ \E al \in AllowedLengthChoices, sw \in StartWindowChoices :
       /\ cfg' = [allowed_lengths |-> al, start_window |-> sw]
       /\ flex' = build_flexible_candidates(data, al, sw)
       /\ data' = DataAfterCall(data, al, sw)
  /\ pc' = "check"
  /\ UNCHANGED <<csv, m, sol, out>>

\* the same call once more, with the same arguments
CallBuildFlexibleCandidatesAgain ==
  /\ pc = "check"
  /\ flex' = build_flexible_candidates(data, cfg.allowed_lengths, cfg.start_window)
  /\ data' = DataAfterCall(data, cfg.allowed_lengths, cfg.start_window)
  /\ pc' = "again"
  /\ UNCHANGED <<csv, cfg, m, sol, out>>

\* load_data once more on the same directory
LoadDataAgain ==
  /\ pc = "again"
  /\ data' = load_data(csv)
  /\ pc' = "reloaded"
  /\ UNCHANGED <<csv, cfg, flex, m, sol, out>>

\* lines 206-210.  main passes allowed_lengths = (6, 8, 10) and start_window =
\* None; the catalog is scaled to the interval domains explored here.
MainAllowedLengths == <<MaxLen>>

BuildFlexibleCandidates ==
  /\ pc = "flex"
  /\ cfg' = [allowed_lengths |-> MainAllowedLengths, start_window |-> None]
  /\ flex' = build_flexible_candidates(data, MainAllowedLengths, None)
  /\ data' = DataAfterCall(data, MainAllowedLengths, None)
  /\ pc' = "check"
  /\ UNCHANGED <<csv, m, sol, out>>

\* line 213: sanity_check(data)
SanityCheck ==
  /\ pc = "check"
  /\ pc' = IF SanityFails(data) THEN "error" ELSE "build"
  /\ UNCHANGED <<csv, cfg, data, flex, m, sol, out>>

\* line 216: m = build_model(data, flex)
BuildModel ==
  /\ pc = "build"
  /\ IF BuildFails(data, flex)
     THEN pc' = "error" /\ m' = NoModel
     ELSE pc' = "solve" /\ m' = build_model(data, flex)
  /\ UNCHANGED <<csv, cfg, data, flex, sol, out>>

\* the slack vectors tried for the solver's answer: every constant one up to
\* MaxSlack, and the requirement itself
SlackChoices(mm, req) ==
  {[g \in Grid(mm) |-> v] : v \in 0..MaxSlack} \cup {[g \in Grid(mm) |-> req[g]]}

\* line 224: opt.options["ratioGap"] = 0.02, that is 1 / RatioGapInverse
RatioGapInverse == 50

\* the solver may call an assignment optimal when its objective value is within
\* the ratio gap of the minimum, best
WithinGap(mm, a, best) ==
  obj_rule(mm, a) - best <= obj_rule(mm, a) \div RatioGapInverse

\* line 225: opt.options["seconds"] = 60; the termination conditions of a run
\* that ends with a solution
SolverStatuses == {"optimal", "maxTimeLimit"}

\* line 229: results = opt.solve(m); the solver leaves in the variables some
\* assignment that satisfies every constraint of m, and in results the condition
\* it stopped on: optimal only within the gap, the time limit with any
\* assignment found so far.  The constraints that read only x and y are tested
\* before the slack vectors are tried.
Solve ==
  /\ pc = "solve"
  /\ \E best \in {OptValue(m)}, xv \in [m.X -> {0, 1}] :
       /\ SkillOK(m, [x |-> xv])
       /\ \E yv \in [m.Y -> {0, 1}] :
            /\ OneShiftPerDay(m, [x |-> xv, y |-> yv])
            /\ \E smin \in SlackChoices(m, m.minReq) :
                 /\ Minimum(m, [x |-> xv, y |-> yv, slack_min |-> smin])
                 /\ \E spref \in SlackChoices(m, m.prefReq) :
                      LET a == [x |-> xv, y |-> yv, slack_min |-> smin,
                                slack_pref |-> spref]
                      IN /\ Satisfies(m, a)
                         /\ \E st \in SolverStatuses :
                              /\ st = "optimal" => WithinGap(m, a, best)
                              /\ sol' = [x |-> xv, y |-> yv, slack_min |-> smin,
                                          slack_pref |-> spref, status |-> st]
  /\ pc' = "export"
  /\ UNCHANGED <<csv, cfg, data, flex, m, out>>

\* line 229, the run that ends without a solution (solver error, or the time
\* limit before any assignment was found): the variables of m get no value, and
\* the call, or the first value() of an export, raises
SolveFails ==
  /\ pc = "solve"
  /\ sol' = [x |-> <<>>, status |-> "error"]
  /\ pc' = "error"
  /\ UNCHANGED <<csv, cfg, data, flex, m, out>>

\* lines 234-238: the export_* calls write the rows whose value exceeds 0.5
Export ==
  /\ pc = "export"
  /\ out' = [ft |-> {x \in m.X : sol.x[x] * 2 > 1},
             pt |-> {<<m.P_i[p], m.P_k[p], m.P_d[p], m.P_s[p], m.P_L[p]>> :
                       p \in {p2 \in m.Y : sol.y[p2] * 2 > 1}},
             shortfalls |-> [g \in Grid(m) |->
                               <<compute_assigned(m, sol, g[1], g[2], g[3]),
                                 m.minReq[g], m.prefReq[g],
                                 sol.slack_min[g], sol.slack_pref[g]>>]]
  /\ pc' = "done"
  /\ UNCHANGED <<csv, cfg, data, flex, m, sol>>

Blank ==
  /\ cfg = NoCfg
  /\ pc = "load"
  /\ data = NoData
  /\ flex = NoFlex
  /\ m = NoModel
  /\ sol = NoSol
  /\ out = NoOut

InitGen == csv \in CsvGen /\ Blank

NextGen == LoadData \/ CallBuildFlexibleCandidates

SpecGen == InitGen /\ [][NextGen]_vars

Init == csv \in CsvMain /\ Blank

Next ==
  \/ LoadData
  \/ BuildFlexibleCandidates
  \/ SanityCheck
  \/ BuildModel
  \/ Solve
  \/ SolveFails
  \/ Export

Spec == Init /\ [][Next]_vars

\* load_data and build_flexible_candidates, each run a second time
NextTwice ==
  \/ LoadData
  \/ CallBuildFlexibleCandidates
  \/ CallBuildFlexibleCandidatesAgain
  \/ LoadDataAgain

SpecTwice == Init /\ [][NextTwice]_vars

\* main up to build_model, on the datasets of CsvOpt
InitOpt == csv \in CsvOpt /\ Blank

NextOpt ==
  \/ LoadData
  \/ BuildFlexibleCandidates
  \/ SanityCheck
  \/ BuildModel

SpecOpt == InitOpt /\ [][NextOpt]_vars

(***************************************************************************)
(* Vocabulary of the claims, read off the input rows.                      *)
(***************************************************************************)
Loaded == data.employees # <<>>
Flexed == cfg.allowed_lengths # <<>>

Granted(i, k) == \E r \in csv.skills : r.employee_id = i /\ r.job = k

IsBlocked(i, d, t) ==
  \E r \in csv.unavailability :
    r.employee_id = i /\ r.day = d /\ r.start_t <= t /\ t < r.end_t

HalfOpen(s, L) == {t \in 0..(MaxT + MaxLen + 1) : s <= t /\ t < s + L}

XSet == Range(data.X)

\* C1: every fixed candidate (i, j, d) has the skill of job_of(j) and no blocked
\* interval in [start_j, start_j + L_j) on day d.
C1_CandidatesFeasible ==
  Loaded =>
    \A x \in XSet :
      /\ Granted(x[1], data.jobs_of[x[2]])
      /\ \A t \in HalfOpen(data.start_j[x[2]], data.Lj[x[2]]) :
           ~IsBlocked(x[1], x[3], t)

C1_Witness ==
  /\ Loaded
  /\ XSet # {}
  /\ \E i \in Range(data.employees), j \in Range(data.shifts), d \in Range(data.days) :
       /\ Granted(i, data.jobs_of[j])
       /\ data.Lj[j] >= 2
       /\ ~IsBlocked(i, d, data.start_j[j])
       /\ IsBlocked(i, d, data.start_j[j] + 1)
       /\ <<i, j, d>> \notin XSet

ShiftDay(j) == (CHOOSE r \in Range(csv.shifts) : r.shift_id = j).day

\* C2: X is exactly the (i, j, d) with d the day of shift j's own row, the skill
\* granted and no covered interval blocked.
C2_CandidatesOnOwnDayOnly ==
  Loaded =>
    XSet = {x \in Range(data.employees) \X Range(data.shifts) \X Range(data.days) :
              /\ x[3] = ShiftDay(x[2])
              /\ Granted(x[1], data.jobs_of[x[2]])
              /\ \A t \in HalfOpen(data.start_j[x[2]], data.Lj[x[2]]) :
                   ~IsBlocked(x[1], x[3], t)}

PartTimeTypes == {"PT20", "PT25"}

IsPT(i) == \E r \in Range(csv.employees) : r.employee_id = i /\ r.type \in PartTimeTypes

InWindow(s) ==
  cfg.start_window = None
  \/ (cfg.start_window[1] <= s /\ s <= cfg.start_window[2])

Ps == Range(flex.Y)

\* C3: every pattern is of a part-time employee holding the job's skill, with an
\* allowed length, a start inside the window, all of [s, s+L) in the interval
\* domain and none of it blocked.
C3_PatternsFeasible ==
  Flexed =>
    \A p \in Ps :
      /\ IsPT(flex.P_i[p])
      /\ flex.P_i[p] \in Range(data.PT)
      /\ Granted(flex.P_i[p], flex.P_k[p])
      /\ flex.P_L[p] \in Range(cfg.allowed_lengths)
      /\ InWindow(flex.P_s[p])
      /\ \A t \in HalfOpen(flex.P_s[p], flex.P_L[p]) :
           /\ t \in Range(data.intervals)
           /\ ~IsBlocked(flex.P_i[p], flex.P_d[p], t)

C3_Witness ==
  /\ Flexed
  /\ Ps # {}
  /\ cfg.start_window # None
  /\ \E i \in Range(data.PT), k \in Range(data.jobs), d \in Range(data.days) :
       /\ Granted(i, k)
       /\ \E t \in Range(data.intervals) : IsBlocked(i, d, t)
       /\ \E p \in Ps : flex.P_i[p] = i /\ flex.P_d[p] = d /\ flex.P_L[p] >= 2

PatternsOf(i, k, d, s, L) ==
  {p \in Ps : /\ flex.P_i[p] = i /\ flex.P_k[p] = k /\ flex.P_d[p] = d
               /\ flex.P_s[p] = s /\ flex.P_L[p] = L}

Eligible(i, k, d, s, L) ==
  /\ IsPT(i) /\ Granted(i, k) /\ InWindow(s)
  /\ \A t \in HalfOpen(s, L) : t \in Range(data.intervals) /\ ~IsBlocked(i, d, t)

\* C4: exactly one pattern for every eligible (i, k, d, s, L), pairwise distinct
\* identifiers, and exactly one pattern per (job, day) for one length and a
\* one-point window without blocks.
C4_PatternsComplete ==
  Flexed =>
    /\ \A i \in Range(data.employees), k \in Range(data.jobs), d \in Range(data.days),
          s \in 0..(MaxT + MaxLen), L \in Range(cfg.allowed_lengths) :
          Eligible(i, k, d, s, L) => Cardinality(PatternsOf(i, k, d, s, L)) = 1
    /\ Cardinality(Ps) = Len(flex.Y)
    /\ \A p \in Ps : Cardinality({n \in 1..Len(flex.Y) : flex.Y[n] = p}) = 1
    /\ \A i \in Range(data.employees), k \in Range(data.jobs), d \in Range(data.days) :
          ( /\ Len(cfg.allowed_lengths) = 1
            /\ cfg.start_window # None
            /\ cfg.start_window[1] = cfg.start_window[2]
            /\ csv.unavailability = {}
            /\ Eligible(i, k, d, cfg.start_window[1], cfg.allowed_lengths[1]) )
          => Cardinality({p \in Ps : flex.P_i[p] = i /\ flex.P_k[p] = k
                                      /\ flex.P_d[p] = d}) = 1

C4_Witness ==
  /\ Flexed
  /\ Len(flex.Y) >= 2
  /\ \E i \in Range(data.employees), k \in Range(data.jobs), d \in Range(data.days),
        s \in 0..MaxT :
       /\ Eligible(i, k, d, s, 1)
       /\ 1 \in Range(cfg.allowed_lengths)
       /\ IsBlocked(i, d, s + 1)
       /\ PatternsOf(i, k, d, s, 1) # {}

Built == pc = "solve"
Solved == pc = "export"

Chosen == {x \in m.X : sol.x[x] = 1}
Used == {p \in m.Y : sol.y[p] = 1}

PairsWithTerms ==
  {q \in Range(data.employees) \X Range(data.days) :
     \/ \E x \in XSet : x[1] = q[1] /\ x[3] = q[2]
     \/ \E p \in Ps : flex.P_i[p] = q[1] /\ flex.P_d[p] = q[2]}

\* C6: OneShiftPerDay is indexed by exactly the (employee, day) pairs that have a
\* candidate or a pattern, and no satisfying assignment gives an employee more than
\* one assignment on a day, fixed shifts and patterns counted together.
C6_OneShiftPerDay ==
  /\ Built => m.ID = PairsWithTerms
  /\ Solved =>
       \A i \in Range(data.employees), d \in Range(data.days) :
         Cardinality({x \in Chosen : x[1] = i /\ x[3] = d})
         + Cardinality({p \in Used : flex.P_i[p] = i /\ flex.P_d[p] = d}) <= 1

C6_Witness ==
  /\ Solved
  /\ \E i \in Range(data.employees), d \in Range(data.days) :
       /\ \E x \in XSet : x[1] = i /\ x[3] = d
       /\ \E p \in Ps : flex.P_i[p] = i /\ flex.P_d[p] = d
       /\ \E p \in Used : flex.P_i[p] = i /\ flex.P_d[p] = d
  /\ \E q \in Range(data.employees) \X Range(data.days) : q \notin m.ID

DemandRows(k, d, t) == {r \in csv.demand : r.job = k /\ r.day = d /\ r.t = t}

MinimumReq(k, d, t) ==
  IF DemandRows(k, d, t) = {} THEN 0 ELSE (CHOOSE r \in DemandRows(k, d, t) : TRUE).min

PreferredReq(k, d, t) ==
  IF DemandRows(k, d, t) = {} THEN 0
  ELSE (CHOOSE r \in DemandRows(k, d, t) : TRUE).preferred

Assigned(k, d, t) ==
  Cardinality({x \in Chosen : /\ x[3] = d /\ data.jobs_of[x[2]] = k
                               /\ t \in HalfOpen(data.start_j[x[2]], data.Lj[x[2]])})
  + Cardinality({p \in Used : /\ flex.P_k[p] = k /\ flex.P_d[p] = d
                              /\ t \in HalfOpen(flex.P_s[p], flex.P_L[p])})

Cells == Range(data.jobs) \X Range(data.days) \X Range(data.intervals)

\* C7: Minimum and Preferred exist for every cell of jobs x days x intervals, with
\* assigned(k,d,t) the chosen candidates of day d and job k covering t plus the chosen
\* patterns of job k and day d covering t; every satisfying assignment has
\* assigned >= 0, assigned + slack_min >= minimum and assigned + slack_pref >=
\* preferred, a cell without a demand row having minimum = preferred = 0.
C7_StaffingConstraints ==
  /\ Built => Grid(m) = Cells
  /\ Solved =>
       \A g \in Cells :
         LET n == Assigned(g[1], g[2], g[3])
         IN /\ assigned_kdt(m, sol, g[1], g[2], g[3]) = n
            /\ n >= 0
            /\ n + sol.slack_min[g] >= MinimumReq(g[1], g[2], g[3])
            /\ n + sol.slack_pref[g] >= PreferredReq(g[1], g[2], g[3])

C7_Witness ==
  /\ Solved
  /\ \E g \in Cells :
       /\ MinimumReq(g[1], g[2], g[3]) >= 1
       /\ sol.slack_min[g] = 0
       /\ \E x \in Chosen : x[3] = g[2] /\ data.jobs_of[x[2]] = g[1]
  /\ \E g \in Cells : DemandRows(g[1], g[2], g[3]) = {}
  /\ Cardinality(Range(data.days)) >= 2
  /\ Cardinality(Range(data.jobs)) >= 2

ZeroAssignment ==
  [x |-> [x \in m.X |-> 0], y |-> [p \in m.Y |-> 0],
   slack_min |-> [g \in Cells |-> MinimumReq(g[1], g[2], g[3])],
   slack_pref |-> [g \in Cells |-> PreferredReq(g[1], g[2], g[3])]]

\* C8: x = 0, y = 0, slack_min = minimum, slack_pref = preferred satisfies every
\* SkillOK, OneShiftPerDay, Minimum and Preferred constraint and every variable
\* domain of the model that was built.
C8_AlwaysFeasible == Built => Satisfies(m, ZeroAssignment)

C8_Witness ==
  /\ Built
  /\ m.X # {}
  /\ m.Y # {}
  /\ \E g \in Cells : MinimumReq(g[1], g[2], g[3]) >= 1

OnShift(j, d) == {x[1] : x \in {x2 \in Chosen : x2[2] = j /\ x2[3] = d}}

\* C9 as stated: at most one employee per shift instance and day.
C9_OneEmployeePerShift ==
  Solved => \A j \in Range(data.shifts), d \in Range(data.days) :
              Cardinality(OnShift(j, d)) <= 1

\* C9 amended: the constraints bound assignments per employee and day only. The
\* employees on shift j on day d are candidates of (j, d), and each of them has no
\* other fixed shift and no pattern on day d; their number is not bounded by 1.
C9_ShiftSharedByCandidates ==
  Solved =>
    \A j \in Range(data.shifts), d \in Range(data.days) :
      \A i \in OnShift(j, d) :
        /\ <<i, j, d>> \in XSet
        /\ \A x \in Chosen : (x[1] = i /\ x[3] = d) => x[2] = j
        /\ \A p \in Used : ~(flex.P_i[p] = i /\ flex.P_d[p] = d)

C9_Witness ==
  /\ Solved
  /\ \E j \in Range(data.shifts), d \in Range(data.days) :
       /\ Cardinality(OnShift(j, d)) >= 2
       /\ \E i \in OnShift(j, d) :
            \E x \in XSet : x[1] = i /\ x[3] = d /\ x[2] # j

\* C10 as stated: pen_min > pen_pref > 0 and both exceed wage(i) x 0.5 for every
\* employee.
C10_PenaltiesDominateWage ==
  Loaded =>
    /\ data.pen_min > data.pen_pref
    /\ data.pen_pref > 0
    /\ \A i \in Range(data.employees) :
         /\ HoursDen * data.pen_pref > HoursNum * data.wage[i]
         /\ HoursDen * data.pen_min > HoursNum * data.wage[i]

\* C10 amended: the weights are the constants 10^7 and 10 whatever the dataset, so
\* pen_min > pen_pref > 0; pen_pref exceeds wage(i) x 0.5 exactly when
\* wage(i) < 20, and pen_min exceeds it for every wage below 2 x 10^7.
C10_PenaltiesAreConstants ==
  Loaded =>
    /\ data.pen_min = 10000000
    /\ data.pen_pref = 10
    /\ data.pen_min > data.pen_pref
    /\ data.pen_pref > 0
    /\ \A i \in Range(data.employees) :
         /\ (HoursDen * data.pen_pref > HoursNum * data.wage[i]) <=> (data.wage[i] < 20)
         /\ (data.wage[i] < 20000000) => (HoursDen * data.pen_min > HoursNum * data.wage[i])

C10_Witness ==
  /\ Loaded
  /\ \E i \in Range(data.employees) : data.wage[i] >= 20
  /\ \E i \in Range(data.employees) : data.wage[i] < 20

(***************************************************************************)
(* The one-employee, one-shift scenario: a single employee row, a single   *)
(* shift row on day 1 without unpaid break whose job the employee holds,   *)
(* no unavailability rows, and demand rows with minimum 1 at exactly the   *)
(* intervals the shift covers.                                             *)
(***************************************************************************)
OnlyEmployee == csv.employees[1].employee_id
OnlyShift == csv.shifts[1]
OnlyCandidate == <<OnlyEmployee, OnlyShift.shift_id, 1>>

SingleShiftScenario ==
  /\ Built
  /\ Len(csv.employees) = 1
  /\ Len(csv.shifts) = 1
  /\ Granted(OnlyEmployee, OnlyShift.job)
  /\ OnlyShift.day = 1
  /\ OnlyShift.unpaid_breaks_Bj = 0
  /\ OnlyShift.length >= 1
  /\ csv.unavailability = {}
  /\ {<<r.job, r.day, r.t>> : r \in csv.demand}
       = {<<OnlyShift.job, 1, t>> : t \in HalfOpen(OnlyShift.start_t, OnlyShift.length)}
  /\ \A r \in csv.demand : r.min = 1

\* the patterns of the employee with the job, day, start and length of the shift
Twins ==
  {p \in m.Y : /\ m.P_i[p] = OnlyEmployee /\ m.P_k[p] = OnlyShift.job
               /\ m.P_d[p] = 1 /\ m.P_s[p] = OnlyShift.start_t
               /\ m.P_L[p] = OnlyShift.length}

Covered(j) == HalfOpen(data.start_j[j], data.Lj[j])

FullyBlocked(i, j, d) == Covered(j) # {} /\ \A t \in Covered(j) : IsBlocked(i, d, t)

\* no candidate and no pattern covers interval t for job k on day d
Uncoverable(k, d, t) ==
  /\ \A x \in XSet : ~(x[3] = d /\ data.jobs_of[x[2]] = k /\ t \in Covered(x[2]))
  /\ \A p \in Ps : ~(flex.P_k[p] = k /\ flex.P_d[p] = d
                        /\ t \in HalfOpen(flex.P_s[p], flex.P_L[p]))

\* C12: an employee blocked on every interval a shift covers on a day is no
\* candidate for that shift and day; and at a cell no candidate or pattern can
\* cover, every minimizing assignment has slack_min equal to the minimum.
C12_BlockedMeansShortfall ==
  /\ Loaded =>
       \A i \in Range(data.employees), j \in Range(data.shifts), d \in Range(data.days) :
         FullyBlocked(i, j, d) => <<i, j, d>> \notin XSet
  /\ Built =>
       LET bare == {g \in Cells : Uncoverable(g[1], g[2], g[3])}
       IN bare # {} =>
            \A a \in Optimal(m) :
              \A g \in bare : a.slack_min[g] = MinimumReq(g[1], g[2], g[3])

C12_Witness ==
  /\ Built
  /\ \E i \in Range(data.employees), j \in Range(data.shifts), d \in Range(data.days) :
       /\ FullyBlocked(i, j, d)
       /\ Granted(i, data.jobs_of[j])
       /\ \E t \in Covered(j) :
            /\ Uncoverable(data.jobs_of[j], d, t)
            /\ MinimumReq(data.jobs_of[j], d, t) >= 1
  /\ \E g \in Cells : ~Uncoverable(g[1], g[2], g[3])

\* the dataset that differs from csv only in the minimum of cell g, raised by 1;
\* a cell without a demand row has minimum and preferred 0
RaisedMinimum(g) ==
  LET rows == DemandRows(g[1], g[2], g[3])
      new  == DemandRow(g[1], g[2], g[3], PreferredReq(g[1], g[2], g[3]),
                        MinimumReq(g[1], g[2], g[3]) + 1)
  IN [csv EXCEPT !.demand = (csv.demand \ rows) \cup {new}]

RaisedModel(g) == ModelOf(RaisedMinimum(g), cfg.allowed_lengths, cfg.start_window)

\* C13: raising the minimum of one cell by one, everything else unchanged, never lowers
\* the minimum objective value of the model that is built.
C13_OptimumMonotoneInMinimum ==
  Built =>
    \A base \in {OptValue(m)}, g \in Cells :
      \A raised \in {RaisedModel(g)} :
        /\ raised.minReq[g] = m.minReq[g] + 1
        /\ [raised EXCEPT !.minReq = m.minReq] = m
        /\ OptValue(raised) >= base

C13_Witness ==
  /\ Built
  /\ m.X # {}
  /\ m.Y # {}
  /\ \E g \in Cells : OptValue(RaisedModel(g)) > OptValue(m)
  /\ \E g \in Cells : OptValue(RaisedModel(g)) = OptValue(m)

\* what a set of patterns is, identifiers aside: the tuples with their coverage
\* and cost
PatternFacts(fl) ==
  {<<fl.P_i[p], fl.P_k[p], fl.P_d[p], fl.P_s[p], fl.P_L[p],
     {c[2] : c \in {c2 \in fl.covP : c2[1] = p}}, fl.paidP[p], fl.costP[p]>> :
     p \in Range(fl.Y)}

DeclaredJobs == {r.job : r \in csv.skills}
DeclaredDays == {r.day : r \in Range(csv.shifts)}
DeclaredEmployees == {r.employee_id : r \in Range(csv.employees)}

IntegrityViolation ==
  \/ \E r \in Range(csv.shifts) : r.job \notin DeclaredJobs
  \/ \E r \in csv.skills : r.employee_id \notin DeclaredEmployees
  \/ \E r \in csv.demand : r.job \notin DeclaredJobs \/ r.day \notin DeclaredDays

\* C15: with a shift row of an undeclared job, a skill row of an unknown employee
\* or a demand row of an undeclared job or day, load_data ends in an error: it
\* returns no data, and no candidate set or model is produced.
C15_IntegrityErrorsFatalAtLoad ==
  IntegrityViolation =>
    /\ pc \in {"load", "error"}
    /\ data = NoData
    /\ m = NoModel

EmptyDomain ==
  \/ csv.employees = <<>>
  \/ csv.shifts = <<>>
  \/ csv.demand = {}
  \/ (Loaded /\ data.X = <<>>)

\* C16: a dataset with zero employees, zero shifts, zero demand rows or no
\* feasible candidate, and no integrity violation, never ends in an error on the
\* way to build_model.
C16_EmptyDomainsNonFatal ==
  (EmptyDomain /\ ~IntegrityViolation) => pc # "error"

Exported == pc = "done"

\* C17: the exports carry the condition the solver stopped on: a result that
\* stopped on the time limit is labelled as such with the exported files, and no
\* files are written without the status having been read.
C17_SolverStatusPropagated ==
  Exported =>
    /\ "status" \in DOMAIN out
    /\ out.status = sol.status

====
